---- MODULE Spec2Model ----
(***************************************************************************)
(* A model of the mini-telnet session engine (src/src/lib.rs) and of its   *)
(* protocol decoder (src/src/codec.rs).                                    *)
(*                                                                         *)
(* Bytes are integers 0..255, byte strings and Rust Strings are sequences  *)
(* (a String is the sequence of its characters' code points).  The         *)
(* transport is modelled by the bytes in flight from the remote (wire),    *)
(* the bytes the client has written during the call (written), and two     *)
(* flags of the remote: it has closed its side (closed) or it has stopped  *)
(* accepting bytes (accepting = FALSE).                                    *)
(***************************************************************************)
EXTENDS Integers, Sequences, FiniteSets, TLC

(***************************************************************************)
(* Bounds of the model.                                                    *)
(***************************************************************************)
\* how many segments the remote sends during one session
MaxSend == 3
\* how many login / execute / normal_execute calls one session makes
MaxCalls == 2

(***************************************************************************)
(* Bytes of the wire protocol.                                             *)
(***************************************************************************)
IAC == 255
SE == 240
SB == 250
WILL == 251
WONT == 252
DO == 253
DONT == 254
NAWS == 31
LF == 10

(***************************************************************************)
(* Helpers on byte strings (slice::ends_with, str::lines, [String]::join). *)
(***************************************************************************)
EndsWith(s, t) ==
  /\ Len(t) <= Len(s)
  /\ SubSeq(s, Len(s) - Len(t) + 1, Len(s)) = t

\* self.prompts.iter().filter(|p| line.ends_with(p.as_bytes())).count() != 0
EndsWithPrompt(line, ps) == \E p \in ps : EndsWith(line, p)

\* str::lines().count(): one line per line-feed, plus the unterminated rest
LinesCount(s) ==
  Cardinality({i \in 1..Len(s) : s[i] = LF})
    + (IF s # <<>> /\ s[Len(s)] # LF THEN 1 ELSE 0)

RECURSIVE Join(_, _)
Join(strs, sep) ==
  IF strs = <<>> THEN <<>>
  ELSE IF Len(strs) = 1 THEN strs[1]
  ELSE strs[1] \o sep \o Join(Tail(strs), sep)

\* Telnet::format_enter_str
format_enter_str(s) ==
  IF ~EndsWith(s, <<LF>>) THEN s \o <<LF>> ELSE s

(***************************************************************************)
(* fn decode(line): strict UTF-8, then GBK, then GB18030.  With the        *)
(* encoding crate both legacy decoders are the same GB18030 state machine: *)
(* a byte below 0x80 is itself, 0x80 is U+20AC, a lead byte 0x81..0xFE     *)
(* needs a trail byte 0x40..0x7E or 0x80..0xFE (two-byte form) or a digit  *)
(* 0x30..0x39 (four-byte form).  The character tables are the library's:   *)
(* a decoded two-byte character is kept as a code point above 0xFFFF that  *)
(* is a one-to-one image of its two bytes.                                 *)
(***************************************************************************)
IsContinuation(b) == b >= 128 /\ b <= 191

RECURSIVE Utf8Valid(_)
Utf8Valid(b) ==
  IF b = <<>> THEN TRUE
  ELSE IF b[1] < 128 THEN Utf8Valid(Tail(b))
  ELSE IF b[1] >= 194 /\ b[1] <= 223
    THEN Len(b) >= 2 /\ IsContinuation(b[2]) /\ Utf8Valid(SubSeq(b, 3, Len(b)))
  ELSE FALSE

RECURSIVE Utf8Chars(_)
Utf8Chars(b) ==
  IF b = <<>> THEN <<>>
  ELSE IF b[1] < 128 THEN <<b[1]>> \o Utf8Chars(Tail(b))
  ELSE <<(b[1] - 192) * 64 + (b[2] - 128)>> \o Utf8Chars(SubSeq(b, 3, Len(b)))

IsGbTrail(b) == (b >= 64 /\ b <= 126) \/ (b >= 128 /\ b <= 254)

IsGbDigit(b) == b >= 48 /\ b <= 57

GbChar(lead, trail) == 65536 + lead * 256 + trail

RECURSIVE GbDecode(_)
GbDecode(b) ==
  IF b = <<>> THEN [ok |-> TRUE, s |-> <<>>]
  ELSE IF b[1] < 128 THEN
    LET r == GbDecode(Tail(b)) IN [ok |-> r.ok, s |-> <<b[1]>> \o r.s]
  ELSE IF b[1] = 128 THEN
    LET r == GbDecode(Tail(b)) IN [ok |-> r.ok, s |-> <<8364>> \o r.s]
  ELSE IF b[1] # 255 /\ Len(b) >= 2 /\ IsGbTrail(b[2]) THEN
    LET r == GbDecode(SubSeq(b, 3, Len(b)))
    IN [ok |-> r.ok, s |-> <<GbChar(b[1], b[2])>> \o r.s]
  ELSE IF /\ b[1] # 255 /\ Len(b) >= 4 /\ IsGbDigit(b[2])
          /\ b[3] >= 129 /\ b[3] <= 254 /\ IsGbDigit(b[4]) THEN
    LET r == GbDecode(SubSeq(b, 5, Len(b)))
    IN [ok |-> r.ok,
        s |-> <<GbChar(GbChar(b[1], b[2]), GbChar(b[3], b[4]))>> \o r.s]
  ELSE [ok |-> FALSE, s |-> <<>>]

\* fn decode(line: &[u8]) -> Result<String, TelnetError>
TextDecode(line) ==
  IF Utf8Valid(line) THEN [ok |-> TRUE, s |-> Utf8Chars(line)]
  ELSE GbDecode(line)

(***************************************************************************)
(* The protocol decoder, src/src/codec.rs.  An item is a record with a     *)
(* type ("None" for Ok(None), "Err" for Err(UnknownIAC), "NeedMore",       *)
(* "Line", "Will", "Wont", "Do", "Dont", "SB", "SE"), the option or        *)
(* command byte (opt) and the bytes of a Line (line).                      *)
(***************************************************************************)
Item(t, o, l) == [type |-> t, opt |-> o, line |-> l]

is_three_byte_iac(byte) == byte >= WILL /\ byte <= DONT

is_sub(byte) == byte = SE \/ byte = SB

\* try_parse_iac for a parser that takes the bytes of an incomplete sequence
try_parse_iac_consumes_partial(bytes) ==
  IF Len(bytes) < 2 THEN [item |-> Item("NeedMore", 0, <<>>), consume |-> Len(bytes)]
  ELSE IF is_three_byte_iac(bytes[2]) /\ Len(bytes) < 3
    THEN [item |-> Item("NeedMore", 0, <<>>), consume |-> Len(bytes)]
  ELSE IF is_sub(bytes[2]) /\ Len(bytes) < 3
    THEN [item |-> Item("NeedMore", 0, <<>>), consume |-> Len(bytes)]
  ELSE CASE bytes[2] = SE -> [item |-> Item("SE", bytes[3], <<>>), consume |-> 2]
         [] bytes[2] = SB -> [item |-> Item("SB", bytes[3], <<>>), consume |-> 2]
         [] bytes[2] = WILL -> [item |-> Item("Will", bytes[3], <<>>), consume |-> 3]
         [] bytes[2] = WONT -> [item |-> Item("Wont", bytes[3], <<>>), consume |-> 3]
         [] bytes[2] = DO -> [item |-> Item("Do", bytes[3], <<>>), consume |-> 3]
         [] bytes[2] = DONT -> [item |-> Item("Dont", bytes[3], <<>>), consume |-> 3]
         [] OTHER -> [item |-> Item("Err", bytes[2], <<>>), consume |-> 0]

\* try_parse_iac for a parser that skips a command it does not know
try_parse_iac_skips_unknown(bytes) ==
  IF Len(bytes) < 2 THEN [item |-> Item("NeedMore", 0, <<>>), consume |-> 0]
  ELSE IF is_three_byte_iac(bytes[2]) /\ Len(bytes) < 3
    THEN [item |-> Item("NeedMore", 0, <<>>), consume |-> 0]
  ELSE IF is_sub(bytes[2]) /\ Len(bytes) < 3
    THEN [item |-> Item("NeedMore", 0, <<>>), consume |-> 0]
  ELSE CASE bytes[2] = SE -> [item |-> Item("SE", bytes[3], <<>>), consume |-> 2]
         [] bytes[2] = SB -> [item |-> Item("SB", bytes[3], <<>>), consume |-> 2]
         [] bytes[2] = WILL -> [item |-> Item("Will", bytes[3], <<>>), consume |-> 3]
         [] bytes[2] = WONT -> [item |-> Item("Wont", bytes[3], <<>>), consume |-> 3]
         [] bytes[2] = DO -> [item |-> Item("Do", bytes[3], <<>>), consume |-> 3]
         [] bytes[2] = DONT -> [item |-> Item("Dont", bytes[3], <<>>), consume |-> 3]
         [] OTHER -> [item |-> Item("None", 0, <<>>), consume |-> 2]

\* try_parse_iac for a parser that takes a subnegotiation start for an end
try_parse_iac_sb_unrecognised(bytes) ==
  IF Len(bytes) < 2 THEN [item |-> Item("NeedMore", 0, <<>>), consume |-> 0]
  ELSE IF is_three_byte_iac(bytes[2]) /\ Len(bytes) < 3
    THEN [item |-> Item("NeedMore", 0, <<>>), consume |-> 0]
  ELSE IF is_sub(bytes[2]) /\ Len(bytes) < 3
    THEN [item |-> Item("NeedMore", 0, <<>>), consume |-> 0]
  ELSE CASE bytes[2] = SE -> [item |-> Item("SE", bytes[3], <<>>), consume |-> 2]
         [] bytes[2] = SB -> [item |-> Item("SE", bytes[3], <<>>), consume |-> 2]
         [] bytes[2] = WILL -> [item |-> Item("Will", bytes[3], <<>>), consume |-> 3]
         [] bytes[2] = WONT -> [item |-> Item("Wont", bytes[3], <<>>), consume |-> 3]
         [] bytes[2] = DO -> [item |-> Item("Do", bytes[3], <<>>), consume |-> 3]
         [] bytes[2] = DONT -> [item |-> Item("Dont", bytes[3], <<>>), consume |-> 3]
         [] OTHER -> [item |-> Item("Err", bytes[2], <<>>), consume |-> 0]

\* (result, consume) of try_parse_iac(bytes); bytes[1] is the IAC byte
try_parse_iac(bytes) ==
  IF Len(bytes) < 2 THEN [item |-> Item("NeedMore", 0, <<>>), consume |-> 0]
  ELSE IF is_three_byte_iac(bytes[2]) /\ Len(bytes) < 3
    THEN [item |-> Item("NeedMore", 0, <<>>), consume |-> 0]
  ELSE IF is_sub(bytes[2]) /\ Len(bytes) < 3
    THEN [item |-> Item("NeedMore", 0, <<>>), consume |-> 0]
  ELSE CASE bytes[2] = SE -> [item |-> Item("SE", bytes[3], <<>>), consume |-> 2]
         [] bytes[2] = SB -> [item |-> Item("SB", bytes[3], <<>>), consume |-> 2]
         [] bytes[2] = WILL -> [item |-> Item("Will", bytes[3], <<>>), consume |-> 3]
         [] bytes[2] = WONT -> [item |-> Item("Wont", bytes[3], <<>>), consume |-> 3]
         [] bytes[2] = DO -> [item |-> Item("Do", bytes[3], <<>>), consume |-> 3]
         [] bytes[2] = DONT -> [item |-> Item("Dont", bytes[3], <<>>), consume |-> 3]
         [] OTHER -> [item |-> Item("Err", bytes[2], <<>>), consume |-> 0]

\* the decoder's answer: the item, what is left of the buffer, the new state
Decoded(i, src, sb, cur) ==
  [item |-> i, src |-> src, sb_flag |-> sb, current_line |-> cur]

Advance(src, n) == SubSeq(src, n + 1, Len(src))

\* decode for a codec that keeps the control bytes of a line
RECURSIVE decode_keeps_control(_, _, _)
decode_keeps_control(src, sb, cur) ==
  IF src = <<>> THEN Decoded(Item("None", 0, <<>>), src, sb, cur)
  ELSE IF src[1] = IAC THEN
    LET r == try_parse_iac(src)
        rest == Advance(src, r.consume)
    IN IF r.item.type = "SB" THEN decode_keeps_control(rest, TRUE, cur)
       ELSE IF r.item.type = "SE" THEN decode_keeps_control(rest, FALSE, cur)
       ELSE Decoded(r.item, rest, sb, cur)
  ELSE IF sb THEN decode_keeps_control(Advance(src, 1), sb, cur)
  ELSE
    LET byte == src[1]
        rest == Advance(src, 1)
    IN IF byte = LF
         THEN Decoded(Item("Line", 0, cur \o <<byte>>), rest, sb, <<>>)
       ELSE IF rest = <<>>
         THEN Decoded(Item("Line", 0, cur \o <<byte>>), rest, sb, <<>>)
       ELSE decode_keeps_control(rest, sb, cur \o <<byte>>)

\* TelnetCodec::decode(&mut self, src)
RECURSIVE decode(_, _, _)
decode(src, sb, cur) ==
  IF src = <<>> THEN Decoded(Item("None", 0, <<>>), src, sb, cur)
  ELSE IF src[1] = IAC THEN
    LET r == try_parse_iac(src)
        rest == Advance(src, r.consume)
    IN IF r.item.type = "SB" THEN decode(rest, TRUE, cur)
       ELSE IF r.item.type = "SE" THEN decode(rest, FALSE, cur)
       ELSE Decoded(r.item, rest, sb, cur)
  ELSE IF sb THEN decode(Advance(src, 1), sb, cur)
  ELSE
    LET byte == src[1]
        rest == Advance(src, 1)
    IN IF byte = LF
         THEN Decoded(Item("Line", 0, cur \o <<byte>>), rest, sb, <<>>)
       ELSE IF byte >= 0 /\ byte <= 31 THEN decode(rest, sb, cur)
       ELSE IF rest = <<>>
         THEN Decoded(Item("Line", 0, cur \o <<byte>>), rest, sb, <<>>)
       ELSE decode(rest, sb, cur \o <<byte>>)

\* Decoder::decode_eof (tokio_util's default): what FramedRead calls once the
\* transport has reported end of stream
decode_eof(src, sb, cur) ==
  LET d == decode(src, sb, cur)
  IN IF d.item.type = "None" /\ d.src # <<>>
       THEN Decoded(Item("IoErr", 0, <<>>), d.src, d.sb_flag, d.current_line)
       ELSE d

(***************************************************************************)
(* The inputs of the model: the configurations a session is built with     *)
(* (TelnetBuilder), the arguments of the calls, and the segments the       *)
(* remote sends while a call of each kind is in progress.                  *)
(***************************************************************************)
\* "$ "
ShellPrompt == <<36, 32>>

\* prompts, username_prompt, password_prompt of the builder: "l:" / "p:" / "$ ",
\* then ":" / "p:" / "$ " (a password prompt line also ends in the username
\* prompt), then "l:" / "$ " / "$ " (the shell prompt also ends in the
\* password prompt)
Configs ==
  { [prompts |-> {ShellPrompt}, username_prompt |-> <<108, 58>>,
     password_prompt |-> <<112, 58>>],
    [prompts |-> {ShellPrompt}, username_prompt |-> <<58>>,
     password_prompt |-> <<112, 58>>],
    [prompts |-> {ShellPrompt}, username_prompt |-> <<108, 58>>,
     password_prompt |-> ShellPrompt] }

\* "b" and "b\n"
Usernames == { <<98>>, <<98, LF>> }

\* "s"
Passwords == { <<115>> }

\* "c", "c\n" and the two-line "c\nc"
Cmds == { <<99>>, <<99, LF>>, <<99, LF, 99>> }

\* what the remote sends during login: "l:", "p:", "$ ", a banner line "a\n",
\* IAC DO NAWS, IAC DO 1, IAC DONT 1, IAC WILL 1, IAC WONT 1
LoginSegments ==
  { <<108, 58>>, <<112, 58>>, ShellPrompt, <<97, LF>>,
    <<IAC, DO, NAWS>>, <<IAC, DO, 1>>, <<IAC, DONT, 1>>,
    <<IAC, WILL, 1>>, <<IAC, WONT, NAWS>> }

\* what the remote sends while a command runs: "c\r\n" (the echo), "a\n", "a"
\* (a line without its end yet), "\n", "$ ", IAC DO 1, IAC WILL NAWS, a line
\* that is text in no encoding (0x81 "\n"), and the unknown command FF 99
ExecSegments ==
  { <<99, 13, LF>>, <<97, LF>>, <<97>>, <<LF>>, ShellPrompt,
    <<IAC, DO, 1>>, <<IAC, WILL, NAWS>>, <<129, LF>>, <<IAC, 153>> }

(***************************************************************************)
(* The state.  Telnet's fields: prompts, username_prompt, password_prompt, *)
(* content.  The call in progress: op (the method), pc (where it is:       *)
(* "idle" between calls, "write_cmd" at the write of the command, "loop"   *)
(* at telnet.next(), "write" at a write_all of login), its locals (user,   *)
(* pass, auth_failed, command, incomplete_line, line_feed_cnt,             *)
(* real_output, pending: the bytes of the write_all in progress and what   *)
(* they are).  The FramedRead of the call: buf, is_readable, eof, its       *)
(* codec's sb_flag and current_line, and the item that telnet.next()       *)
(* yielded last (item).  What the last call returned: outcome and result.  *)
(***************************************************************************)
VARIABLES prompts, username_prompt, password_prompt, content,
          op, pc, user, pass, auth_failed, command, incomplete_line,
          line_feed_cnt, real_output, pending,
          buf, is_readable, eof, sb_flag, current_line, item,
          wire, written, closed, accepting,
          outcome, result, calls, sent,
          fed, emitted

config == <<prompts, username_prompt, password_prompt>>
locals == <<user, pass, auth_failed, command, incomplete_line,
            line_feed_cnt, real_output, pending>>
framed == <<buf, is_readable, eof, sb_flag, current_line, item>>
remote == <<wire, closed, accepting, sent>>
\* a decoder driven on its own, outside a session: the bytes its caller has
\* appended to the buffer so far (fed) and the items its decode calls have
\* returned (emitted); a session leaves both empty
harness == <<fed, emitted>>
vars == <<config, content, op, pc, locals, framed, remote, written,
          outcome, result, calls, harness>>

NoPending == [kind |-> "none", bytes |-> <<>>]

NoItem == Item("None", 0, <<>>)

\* a Result: Ok, or the TelnetError and what it carries
Res(k, t, c) == [kind |-> k, tag |-> t, code |-> c]
NoOutcome == Res("none", "", 0)
Ok == Res("Ok", "", 0)

\* TelnetBuilder::connect
Init ==
  /\ \E c \in Configs :
       /\ prompts = c.prompts
       /\ username_prompt = c.username_prompt
       /\ password_prompt = c.password_prompt
  /\ content = <<>>
  /\ op = "none" /\ pc = "idle"
  /\ user = <<>> /\ pass = <<>> /\ auth_failed = FALSE
  /\ command = <<>> /\ incomplete_line = <<>>
  /\ line_feed_cnt = 0 /\ real_output = FALSE
  /\ pending = NoPending
  /\ buf = <<>> /\ is_readable = FALSE /\ eof = FALSE
  /\ sb_flag = FALSE /\ current_line = <<>> /\ item = NoItem
  /\ wire = <<>> /\ written = <<>> /\ closed = FALSE /\ accepting = TRUE
  /\ outcome = NoOutcome /\ result = <<>>
  /\ calls = 0 /\ sent = 0
  /\ fed = <<>> /\ emitted = <<>>

\* FramedRead::new(read, TelnetCodec::default())
NewFramed ==
  /\ buf' = <<>> /\ is_readable' = FALSE /\ eof' = FALSE
  /\ sb_flag' = FALSE /\ current_line' = <<>>

\* a return of the call in progress: its locals and its FramedRead are dropped
Return(o, r, i) ==
  /\ pc' = "idle"
  /\ item' = i
  /\ outcome' = o
  /\ result' = r
  /\ user' = <<>> /\ pass' = <<>> /\ auth_failed' = FALSE
  /\ command' = <<>> /\ incomplete_line' = <<>>
  /\ line_feed_cnt' = 0 /\ real_output' = FALSE
  /\ pending' = NoPending
  /\ NewFramed

(***************************************************************************)
(* The framed reader of a call.  FramedRead::poll_next decodes while the   *)
(* buffer is readable and reads from the transport only after the decoder  *)
(* has answered Ok(None); here the decoding is part of the Poll action of  *)
(* each method (the item is handled in the same step) and the read is the  *)
(* action Read.                                                            *)
(***************************************************************************)
NextItem ==
  IF eof THEN decode_eof(buf, sb_flag, current_line)
  ELSE decode(buf, sb_flag, current_line)

\* Some(item) of telnet.next(): Ok(None) of the decoder is not yielded
Yielded(d) == IF d.item.type = "None" THEN item ELSE d.item

\* the decoder has consumed bytes and the loop goes on
Consumed(d) ==
  /\ buf' = d.src
  /\ sb_flag' = d.sb_flag
  /\ current_line' = d.current_line
  /\ is_readable' = (d.item.type # "None")
  /\ eof' = eof
  /\ item' = Yielded(d)

\* what each method returns when time::timeout elapses around telnet.next()
read_timeout_error(o) ==
  IF o = "login" THEN Res("Timeout", "login", 0)
  ELSE Res("Timeout", "read next framed", 0)

\* end_of_stream_error for methods that report the end as an elapsed timer
end_of_stream_as_timeout(o) ==
  IF o = "login" THEN Res("Timeout", "login", 0)
  ELSE Res("Timeout", "read next framed", 0)

\* what each method returns when telnet.next() is None
end_of_stream_error(o) == Res("NoMoreData", "", 0)

\* Err(TelnetError::UnknownIAC(..)) of the decoder, carried out by `?`
decoder_error(i) ==
  IF i.type = "IoErr" THEN Res("IOError", "bytes remaining on stream", 0)
  ELSE Res("UnknownIAC", "Unknown IAC command", i.opt)

\* poll_read_buf returned n > 0 bytes
ReadN(n) ==
  /\ pc = "loop" /\ ~is_readable
  /\ buf' = buf \o SubSeq(wire, 1, n)
  /\ wire' = Advance(wire, n)
  /\ is_readable' = TRUE
  /\ eof' = FALSE
  /\ UNCHANGED <<harness, config, content, op, pc, locals, sb_flag, current_line,
                 item, closed, accepting, sent, written, outcome, result,
                 calls>>

\* a read takes some or all of the bytes in flight
Read == \E n \in 1..Len(wire) : ReadN(n)

\* a read takes all the bytes in flight
ReadAll == wire # <<>> /\ ReadN(Len(wire))

\* poll_read_buf returned 0 bytes: the remote has closed and nothing is left
ReadEof ==
  /\ pc = "loop" /\ ~is_readable /\ ~eof
  /\ wire = <<>> /\ closed
  /\ eof' = TRUE
  /\ is_readable' = TRUE
  /\ UNCHANGED <<harness, config, content, op, pc, locals, buf, sb_flag,
                 current_line, item, remote, written, outcome, result,
                 calls>>

\* the timer of time::timeout(self.timeout, telnet.next()) fires while the
\* read is pending
ReadTimeout ==
  /\ pc = "loop" /\ ~is_readable
  /\ wire = <<>> /\ ~closed
  /\ Return(read_timeout_error(op), <<>>, item)
  /\ UNCHANGED <<harness, config, content, op, remote, written, calls>>

(***************************************************************************)
(* Telnet::login                                                           *)
(***************************************************************************)
\* negotiation_reply with WONT as the answer to everything but DO/DONT NAWS
negotiation_reply_wont(i) ==
  IF i.type \in {"Do", "Dont"} /\ i.opt = NAWS
    THEN <<IAC, WILL, NAWS, IAC, SB, NAWS, 0, 252, 0, 27, IAC, SE>>
    ELSE <<IAC, WONT, i.opt>>

\* the reply to Item::Do / Item::Dont / Item::Will / Item::Wont
negotiation_reply(i) ==
  IF i.type \in {"Do", "Dont"}
    THEN IF i.opt = NAWS
           THEN <<IAC, WILL, NAWS, IAC, SB, NAWS, 0, 252, 0, 27, IAC, SE>>
           ELSE <<IAC, WONT, i.opt>>
    ELSE <<IAC, DONT, i.opt>>

\* login_line without the auth_failed test
login_line_retries(line) ==
  IF EndsWith(line, username_prompt) THEN "user"
  ELSE IF EndsWith(line, password_prompt) THEN "pass"
  ELSE IF EndsWithPrompt(line, prompts) THEN "ok"
  ELSE "skip"

\* login_line with the two credentials exchanged
login_line_swapped(line) ==
  IF EndsWith(line, username_prompt)
    THEN IF auth_failed THEN "auth_failed" ELSE "pass"
  ELSE IF EndsWith(line, password_prompt) THEN "user"
  ELSE IF EndsWithPrompt(line, prompts) THEN "ok"
  ELSE "skip"

\* login_line for a login that looks for the shell prompt first
login_line_prompt_first(line) ==
  IF EndsWithPrompt(line, prompts) THEN "ok"
  ELSE IF EndsWith(line, username_prompt)
    THEN IF auth_failed THEN "auth_failed" ELSE "user"
  ELSE IF EndsWith(line, password_prompt) THEN "pass"
  ELSE "skip"

\* what login does with Item::Line(content)
login_line(line) ==
  IF EndsWith(line, username_prompt)
    THEN IF auth_failed THEN "auth_failed" ELSE "user"
  ELSE IF EndsWith(line, password_prompt) THEN "pass"
  ELSE IF EndsWithPrompt(line, prompts) THEN "ok"
  ELSE "skip"

login(username, password) ==
  /\ pc = "idle" /\ calls < MaxCalls
  /\ calls' = calls + 1
  /\ op' = "login" /\ pc' = "loop"
  /\ user' = format_enter_str(username)
  /\ pass' = format_enter_str(password)
  /\ auth_failed' = FALSE
  /\ NewFramed /\ item' = NoItem
  /\ written' = <<>> /\ outcome' = NoOutcome /\ result' = <<>>
  /\ UNCHANGED <<harness, config, content, command, incomplete_line, line_feed_cnt,
                 real_output, pending, remote>>

\* write.write_all(bytes).await is entered: the call is at the write
StartWrite(k, bytes, d) ==
  /\ pending' = [kind |-> k, bytes |-> bytes]
  /\ pc' = "write"
  /\ Consumed(d)
  /\ UNCHANGED <<harness, config, content, op, user, pass, auth_failed, command,
                 incomplete_line, line_feed_cnt, real_output, remote,
                 written, outcome, result, calls>>

\* the loop of login goes round without a write
LoginContinue(d) ==
  /\ Consumed(d)
  /\ UNCHANGED <<harness, config, content, op, pc, locals, remote, written, outcome,
                 result, calls>>

LoginReturn(o, d) ==
  /\ Return(o, <<>>, Yielded(d))
  /\ UNCHANGED <<harness, config, content, op, remote, written, calls>>

\* one turn of login's loop on a readable buffer: telnet.next() and the match
LoginPoll ==
  /\ op = "login" /\ pc = "loop" /\ is_readable
  /\ LET d == NextItem
         i == d.item
     IN CASE i.type = "None" ->
               IF eof THEN LoginReturn(end_of_stream_error(op), d)
               ELSE LoginContinue(d)
          [] i.type \in {"Err", "IoErr"} -> LoginReturn(decoder_error(i), d)
          [] i.type \in {"Do", "Dont", "Will", "Wont"} ->
               StartWrite("reply", negotiation_reply(i), d)
          [] i.type = "Line" ->
               LET a == login_line(i.line)
               IN CASE a = "auth_failed" ->
                         LoginReturn(Res("AuthenticationFailed", "", 0), d)
                    [] a = "user" -> StartWrite("user", user, d)
                    [] a = "pass" -> StartWrite("pass", pass, d)
                    [] a = "ok" -> LoginReturn(Ok, d)
                    [] OTHER -> LoginContinue(d)
          [] OTHER -> LoginReturn(Res("UnknownIAC", i.type, 0), d)

\* write.write_all(..).await completes (no timer is set around it)
LoginWrite ==
  /\ op = "login" /\ pc = "write"
  /\ accepting
  /\ written' = written \o pending.bytes
  /\ auth_failed' = (auth_failed \/ pending.kind = "pass")
  /\ pending' = NoPending
  /\ pc' = "loop"
  /\ UNCHANGED <<harness, config, content, op, user, pass, command, incomplete_line,
                 line_feed_cnt, real_output, framed, remote, outcome, result,
                 calls>>

(***************************************************************************)
(* Telnet::execute and Telnet::normal_execute                              *)
(***************************************************************************)
\* command.lines().count() as isize
\* echo_lines for a counter that leaves the last line of the echo out
echo_lines_less_one(cmd) == LinesCount(cmd) - 1

echo_lines(cmd) == LinesCount(cmd)

\* prompt_line for a loop that looks for the prompt in complete lines only
prompt_line_complete(line) ==
  EndsWith(line, <<LF>>) /\ EndsWithPrompt(line, prompts)

\* "ignore prompt line": the line ends the command
prompt_line(line) == EndsWithPrompt(line, prompts)

\* echo_filter with the line that ends the echo let through to the output
echo_filter_emits_last(line, cnt, real) ==
  IF EndsWith(line, <<LF>>) /\ cnt > 0
    THEN [cnt |-> cnt - 1, real |-> (cnt - 1 = 0) \/ real,
          collect |-> (cnt - 1 = 0) \/ real]
    ELSE [cnt |-> cnt, real |-> real, collect |-> real]

\* "ignore command line echo": the counter, the flag, and whether the line
\* goes on to be collected
echo_filter(line, cnt, real) ==
  IF EndsWith(line, <<LF>>) /\ cnt > 0
    THEN IF cnt - 1 = 0
           THEN [cnt |-> 0, real |-> TRUE, collect |-> FALSE]
           ELSE [cnt |-> cnt - 1, real |-> real, collect |-> real]
    ELSE [cnt |-> cnt, real |-> real, collect |-> real]

\* collect for a loop that forgets the partial line when a chunk ends in a
\* line-feed
collect_drops_partial(line, cont, inc) ==
  IF ~EndsWith(line, <<LF>>)
    THEN LET inc2 == inc \o line
         IN IF EndsWithPrompt(inc2, prompts)
              THEN [ctl |-> "break", content |-> cont, incomplete_line |-> inc2]
            ELSE [ctl |-> "continue", content |-> cont,
                  incomplete_line |-> inc2]
    ELSE IF TextDecode(line).ok
           THEN [ctl |-> "continue",
                 content |-> Append(cont, TextDecode(line).s),
                 incomplete_line |-> <<>>]
           ELSE [ctl |-> "err", content |-> cont, incomplete_line |-> inc]

\* the collection of a line into incomplete_line and self.content: ctl is
\* "continue" (the loop goes round), "break" (a prompt ended the command) or
\* "err" (decode failed)
collect(line, cont, inc) ==
  IF ~EndsWith(line, <<LF>>) \/ inc # <<>>
    THEN LET inc2 == inc \o line
         IN IF EndsWithPrompt(inc2, prompts)
              THEN [ctl |-> "break", content |-> cont, incomplete_line |-> inc2]
            ELSE IF EndsWith(inc2, <<LF>>)
              THEN IF TextDecode(inc2).ok
                     THEN [ctl |-> "continue",
                           content |-> Append(cont, TextDecode(inc2).s),
                           incomplete_line |-> <<>>]
                     ELSE [ctl |-> "err", content |-> cont,
                           incomplete_line |-> inc2]
            ELSE [ctl |-> "continue", content |-> cont,
                  incomplete_line |-> inc2]
    ELSE IF TextDecode(line).ok
           THEN [ctl |-> "continue",
                 content |-> Append(cont, TextDecode(line).s),
                 incomplete_line |-> inc]
           ELSE [ctl |-> "err", content |-> cont, incomplete_line |-> inc]

\* let result = self.content.join("\n")
joined(cont) == Join(cont, <<LF>>)

\* exec_reply for loops that answer as login does
exec_reply_as_login(i) ==
  IF i.type \in {"Do", "Dont", "Will", "Wont"} THEN
    IF i.type \in {"Do", "Dont"}
      THEN IF i.opt = NAWS
             THEN <<IAC, WILL, NAWS, IAC, SB, NAWS, 0, 252, 0, 27, IAC, SE>>
             ELSE <<IAC, WONT, i.opt>>
      ELSE <<IAC, DONT, i.opt>>
  ELSE <<>>

\* what the loops of execute and normal_execute do with a negotiation item
\* or Item::NeedMore: `if let Item::Line(..) = item?` does not match
exec_reply(i) == <<>>

StartExec(o, cmd) ==
  /\ pc = "idle" /\ calls < MaxCalls
  /\ calls' = calls + 1
  /\ op' = o /\ pc' = "write_cmd"
  /\ command' = format_enter_str(cmd)
  /\ incomplete_line' = <<>>
  /\ NewFramed /\ item' = NoItem
  /\ written' = <<>> /\ outcome' = NoOutcome /\ result' = <<>>
  /\ UNCHANGED <<harness, config, content, user, pass, auth_failed, pending, remote>>

execute(cmd) ==
  /\ StartExec("execute", cmd)
  /\ line_feed_cnt' = echo_lines(format_enter_str(cmd))
  /\ real_output' = FALSE

normal_execute(cmd) ==
  /\ StartExec("normal_execute", cmd)
  /\ UNCHANGED <<line_feed_cnt, real_output>>

\* time::timeout(self.timeout, write.write(command.as_bytes())) completes:
\* write returns after the transport has taken n > 0 bytes of the command
WriteCmd ==
  /\ pc = "write_cmd" /\ accepting
  /\ \E n \in 1..Len(command) : written' = SubSeq(command, 1, n)
  /\ pc' = "loop"
  /\ UNCHANGED <<harness, config, content, op, locals, framed, remote, outcome,
                 result, calls>>

\* the timer around the write of the command fires
WriteCmdTimeout ==
  /\ pc = "write_cmd" /\ ~accepting
  /\ Return(Res("Timeout", "write cmd", 0), <<>>, item)
  /\ UNCHANGED <<harness, config, content, op, remote, written, calls>>

ExecContinue(d, cont, inc, cnt, real) ==
  /\ Consumed(d)
  /\ content' = cont
  /\ incomplete_line' = inc
  /\ line_feed_cnt' = cnt
  /\ real_output' = real
  /\ written' = written \o exec_reply(d.item)
  /\ UNCHANGED <<harness, config, op, pc, user, pass, auth_failed, command, pending,
                 remote, outcome, result, calls>>

\* break, then join, clear and Ok(result)
ExecBreak(d, cont) ==
  /\ Return(Ok, joined(cont), Yielded(d))
  /\ content' = <<>>
  /\ UNCHANGED <<harness, config, op, remote, written, calls>>

\* return Err(..): self.content is left as it is
ExecFail(o, d) ==
  /\ Return(o, <<>>, Yielded(d))
  /\ UNCHANGED <<harness, config, content, op, remote, written, calls>>

ExecKeep(d) ==
  ExecContinue(d, content, incomplete_line, line_feed_cnt, real_output)

ExecCollect(d, cnt, real) ==
  LET c == collect(d.item.line, content, incomplete_line)
  IN CASE c.ctl = "break" -> ExecBreak(d, c.content)
       [] c.ctl = "err" -> ExecFail(Res("ParseError", "", 0), d)
       [] OTHER -> ExecContinue(d, c.content, c.incomplete_line, cnt, real)

\* one turn of execute's loop on a readable buffer
ExecutePoll ==
  /\ op = "execute" /\ pc = "loop" /\ is_readable
  /\ LET d == NextItem
         i == d.item
     IN CASE i.type = "None" ->
               IF eof THEN ExecFail(end_of_stream_error(op), d) ELSE ExecKeep(d)
          [] i.type \in {"Err", "IoErr"} -> ExecFail(decoder_error(i), d)
          [] i.type = "Line" ->
               IF prompt_line(i.line) THEN ExecBreak(d, content)
               ELSE LET f == echo_filter(i.line, line_feed_cnt, real_output)
                    IN IF f.collect THEN ExecCollect(d, f.cnt, f.real)
                       ELSE ExecContinue(d, content, incomplete_line,
                                         f.cnt, f.real)
          [] OTHER -> ExecKeep(d)

\* one turn of normal_execute's loop on a readable buffer
NormalExecutePoll ==
  /\ op = "normal_execute" /\ pc = "loop" /\ is_readable
  /\ LET d == NextItem
         i == d.item
     IN CASE i.type = "None" ->
               IF eof THEN ExecFail(end_of_stream_error(op), d) ELSE ExecKeep(d)
          [] i.type \in {"Err", "IoErr"} -> ExecFail(decoder_error(i), d)
          [] i.type = "Line" ->
               IF prompt_line(i.line) THEN ExecBreak(d, content)
               ELSE ExecCollect(d, line_feed_cnt, real_output)
          [] OTHER -> ExecKeep(d)

(***************************************************************************)
(* The remote.  It sends its next segment once the client has taken in    *)
(* the one before and waits for more (bytes sent earlier would only wait   *)
(* in the transport until then; a read may still deliver a segment in      *)
(* pieces), it may close its side instead, and it may stop taking the      *)
(* bytes the client writes.                                                *)
(***************************************************************************)
Segments(o) == IF o = "login" THEN LoginSegments ELSE ExecSegments

Waiting == pc = "loop" /\ ~is_readable /\ wire = <<>> /\ ~closed

RemoteSend ==
  /\ Waiting /\ sent < MaxSend
  /\ \E seg \in Segments(op) : wire' = wire \o seg
  /\ sent' = sent + 1
  /\ UNCHANGED <<harness, config, content, op, pc, locals, framed, closed, accepting,
                 written, outcome, result, calls>>

RemoteClose ==
  /\ Waiting
  /\ closed' = TRUE
  /\ UNCHANGED <<harness, config, content, op, pc, locals, framed, wire, accepting,
                 sent, written, outcome, result, calls>>

RemoteStall ==
  /\ pc \in {"write_cmd", "write"} /\ accepting
  /\ accepting' = FALSE
  /\ UNCHANGED <<harness, config, content, op, pc, locals, framed, wire, closed,
                 sent, written, outcome, result, calls>>

Next ==
  \/ \E u \in Usernames, p \in Passwords : login(u, p)
  \/ \E c \in Cmds : execute(c)
  \/ \E c \in Cmds : normal_execute(c)
  \/ Read
  \/ ReadEof
  \/ ReadTimeout
  \/ LoginPoll
  \/ LoginWrite
  \/ WriteCmd
  \/ WriteCmdTimeout
  \/ ExecutePoll
  \/ NormalExecutePoll
  \/ RemoteSend
  \/ RemoteClose
  \/ RemoteStall

Spec == Init /\ [][Next]_vars

(***************************************************************************)
(* A login against a scripted remote: it sends a line ending in the        *)
(* username prompt, then, once it has received the username line, a line   *)
(* ending in the password prompt, then, once it has received the password  *)
(* line after it, a line ending in a shell prompt.  Every line arrives in  *)
(* one read, the remote takes what is written, and no timer fires.         *)
(***************************************************************************)
\* the lines ending in p that the scripted remote may send: p, "a" p, and p
\* after the line "a\n"
ScriptLines(p) == { p, <<97>> \o p, <<97, LF>> \o p }

ScriptLogin ==
  /\ calls = 0
  /\ \E u \in Usernames, p \in Passwords : login(u, p)

ScriptSend ==
  /\ op = "login" /\ Waiting
  /\ \/ /\ sent = 0
        /\ \E l \in ScriptLines(username_prompt) : wire' = l
     \/ /\ sent = 1 /\ written = user
        /\ \E l \in ScriptLines(password_prompt) : wire' = l
     \/ /\ sent = 2 /\ written = user \o pass
        /\ \E q \in prompts : \E l \in ScriptLines(q) : wire' = l
  /\ sent' = sent + 1
  /\ UNCHANGED <<harness, config, content, op, pc, locals, framed, closed, accepting,
                 written, outcome, result, calls>>

ScriptNext ==
  \/ ScriptLogin
  \/ ScriptSend
  \/ ReadAll
  \/ LoginPoll
  \/ LoginWrite

\* the runtime polls a call that can go on, and the scripted remote answers
LoginScriptSpec == Init /\ [][ScriptNext]_vars /\ WF_vars(ScriptNext)

(***************************************************************************)
(* The decoder driven on its own: a caller owns one TelnetCodec and one    *)
(* buffer, appends the bytes of a stream to the buffer in pieces of any    *)
(* size, and calls decode as long as it hands out items, as FramedRead     *)
(* does.  The stream is made of at most MaxFeed segments; wire holds the   *)
(* bytes of the stream not yet appended, sent counts its segments.         *)
(***************************************************************************)
\* the number of segments of a stream
MaxFeed == 2

\* the segments a stream is made of: "a", "\n", "a\r", "a\r\n", IAC WILL 1,
\* IAC WONT 31, IAC DO 1, IAC DONT 255, the subnegotiation block
\* FF FA 01 41 42 FF F0, a subnegotiation start FF FA 01 with no end, and the
\* unknown command FF 99
CodecSegments ==
  { <<97>>, <<LF>>, <<97, 13>>, <<97, 13, LF>>,
    <<IAC, WILL, 1>>, <<IAC, WONT, NAWS>>, <<IAC, DO, 1>>, <<IAC, DONT, IAC>>,
    <<IAC, SB, 1, 65, 66, IAC, SE>>, <<IAC, SB, 1>>, <<IAC, 153>> }

\* the stream goes on with one more segment
CodecFeed ==
  /\ op = "none" /\ sent < MaxFeed
  /\ \E s \in CodecSegments : wire' = wire \o s
  /\ sent' = sent + 1
  /\ UNCHANGED <<harness, config, content, op, pc, locals, framed, closed,
                 accepting, written, outcome, result, calls>>

\* the caller appends the next n bytes of the stream to the buffer
CodecAppend ==
  /\ op = "none" /\ wire # <<>>
  /\ \E n \in 1..Len(wire) :
       /\ buf' = buf \o SubSeq(wire, 1, n)
       /\ fed' = fed \o SubSeq(wire, 1, n)
       /\ wire' = Advance(wire, n)
  /\ is_readable' = TRUE
  /\ UNCHANGED <<config, content, op, pc, locals, eof, sb_flag, current_line,
                 item, closed, accepting, sent, written, outcome, result,
                 calls, emitted>>

\* the caller goes on calling decode after this item
HandsOut(i) == i.type \notin {"None", "NeedMore", "Err"}

\* one call of decode on the buffer
CodecDecode ==
  /\ op = "none" /\ is_readable
  /\ LET d == decode(buf, sb_flag, current_line)
     IN /\ buf' = d.src
        /\ sb_flag' = d.sb_flag
        /\ current_line' = d.current_line
        /\ item' = d.item
        /\ emitted' = Append(emitted, d.item)
        /\ is_readable' = HandsOut(d.item)
  /\ UNCHANGED <<config, content, op, pc, locals, eof, remote, written,
                 outcome, result, calls, fed>>

CodecNext ==
  \/ CodecFeed
  \/ CodecAppend
  \/ CodecDecode

\* TelnetCodec::default() and an empty buffer; the session is not used
CodecInit ==
  /\ Init
  /\ username_prompt = <<108, 58>> /\ password_prompt = <<112, 58>>

CodecSpec == CodecInit /\ [][CodecNext]_vars

(***************************************************************************)
(* Properties.                                                             *)
(***************************************************************************)
\* the call o is at telnet.next() and the stream yields a Line now
YieldsLine(o) ==
  /\ op = o /\ pc = "loop" /\ is_readable
  /\ NextItem.item.type = "Line"

\* the call o is at telnet.next() and the stream yields a negotiation item now
YieldsNegotiation(o) ==
  /\ op = o /\ pc = "loop" /\ is_readable
  /\ NextItem.item.type \in {"Do", "Dont", "Will", "Wont"}

\* the call in progress returns in this step
Returns == pc # "idle" /\ pc' = "idle"

\* t occurs in s as a run of consecutive elements
Occurs(t, s) ==
  \E i \in 0..(Len(s) - Len(t)) : SubSeq(s, i + 1, i + Len(t)) = t

RECURSIVE Concat(_)
Concat(strs) == IF strs = <<>> THEN <<>> ELSE strs[1] \o Concat(Tail(strs))

\* C1: execute starts its echo counter at the number of lines of the
\* normalized command (at least 1); a line-feed-terminated line that arrives
\* while the counter is positive is consumed as echo (the counter goes down by
\* one, nothing is added to the output or to the partial line, also for the
\* line that brings the counter to zero); once the counter is zero every
\* line-feed-terminated line is added to the output (joined to the partial
\* line before it) unless it ends the call; and the returned string holds
\* every collected line, and is exactly the collected line when there is one.
C1_EchoThenOutput ==
  [][ /\ (pc = "idle" /\ pc' = "write_cmd" /\ op' = "execute")
           => /\ line_feed_cnt' = LinesCount(command')
              /\ line_feed_cnt' >= 1
              /\ ~real_output'
      /\ (YieldsLine("execute") /\ ~EndsWithPrompt(NextItem.item.line, prompts)
            /\ EndsWith(NextItem.item.line, <<LF>>))
           => LET whole == incomplete_line \o NextItem.item.line
              IN IF line_feed_cnt > 0
                   THEN /\ pc' = "loop"
                        /\ content' = content
                        /\ incomplete_line' = incomplete_line
                        /\ line_feed_cnt' = line_feed_cnt - 1
                 ELSE IF EndsWithPrompt(whole, prompts)
                   THEN pc' = "idle" /\ outcome' = Ok
                 ELSE IF ~TextDecode(whole).ok
                   THEN pc' = "idle" /\ outcome'.kind = "ParseError"
                 ELSE /\ pc' = "loop"
                      /\ content' = Append(content, TextDecode(whole).s)
      /\ (op = "execute" /\ Returns /\ outcome' = Ok)
           => /\ \A k \in 1..Len(content) : Occurs(content[k], result')
              /\ (content = <<>> => result' = <<>>)
              /\ (Len(content) = 1 => result' = content[1])
    ]_vars

\* C1 witness: the first call, execute, has returned "a\n" after the remote
\* sent three segments: an echo line, the line "a\n" and the prompt.
C1_Witness ==
  /\ op = "execute" /\ calls = 1 /\ sent = 3
  /\ outcome = Ok /\ result = <<97, LF>>
  /\ item.type = "Line" /\ item.line = ShellPrompt

\* C2: when execute or normal_execute returns, the returned string is the
\* concatenation of the collected lines, each ending in its one line-feed,
\* with nothing between two lines.
C2_ResultIsConcatenation ==
  [][ (op \in {"execute", "normal_execute"} /\ Returns /\ outcome' = Ok)
        => result' = Concat(content) ]_vars

\* C3: the accumulation buffer is empty whenever no call is in progress, that
\* is after every return of execute and normal_execute, failed or not.
C3_ContentEmptyAtReturn == pc = "idle" => content = <<>>

IsPrefix(t, s) == Len(t) <= Len(s) /\ SubSeq(s, 1, Len(t)) = t

\* no line of the script after the first is taken for an earlier prompt: the
\* password-prompt lines do not end in the username prompt, the shell-prompt
\* lines end in neither
ScriptLinesDistinct ==
  /\ \A l \in ScriptLines(password_prompt) : ~EndsWith(l, username_prompt)
  /\ \A q \in prompts : \A l \in ScriptLines(q) :
       ~EndsWith(l, username_prompt) /\ ~EndsWith(l, password_prompt)

\* what C4 says of a state of the scripted login: the bytes written are a
\* prefix of the username line followed by the password line, and neither is
\* written before its prompt has been decoded
ScriptedWrites ==
  pc # "idle" =>
    /\ IsPrefix(written, user \o pass)
    /\ (sent = 0 \/ (sent = 1 /\ (wire # <<>> \/ buf # <<>>))) => written = <<>>
    /\ (sent = 1 \/ (sent = 2 /\ (wire # <<>> \/ buf # <<>>)))
         => IsPrefix(written, user)

\* what C4 says of the return of the scripted login: success, with exactly the
\* username line and the password line written
ScriptedReturn ==
  (op = "login" /\ Returns)
    => outcome' = Ok /\ written' = user \o pass /\ sent = 3

\* C4 (as amended): against the scripted remote, when the password-prompt line
\* does not end in the username prompt and the shell-prompt line ends in
\* neither credential prompt, login writes exactly the normalized username
\* and then the normalized password, each only after its prompt was decoded,
\* and returns success.
C4_ScriptedLogin ==
  /\ [](ScriptLinesDistinct => ScriptedWrites)
  /\ [][ScriptLinesDistinct => ScriptedReturn]_vars
  /\ (ScriptLinesDistinct => <>(op = "login" /\ outcome = Ok))

\* C4 witness: the scripted login has returned success after the three lines,
\* for a user name given with its line-feed.
C4_Witness ==
  /\ op = "login" /\ pc = "idle" /\ outcome = Ok /\ sent = 3
  /\ written = <<98, LF, 115, LF>>
  /\ item.type = "Line" /\ EndsWithPrompt(item.line, prompts)

\* C4 (as stated): for every configured username, password and shell prompt
\* the scripted login writes only the username line followed by the password
\* line and returns success.
C4_AnyPrompts ==
  /\ ScriptedWrites
  /\ (op = "login" /\ pc = "idle" /\ outcome # NoOutcome) => outcome = Ok

\* C5: in login, a line ending in the username prompt that is yielded after
\* the password has been written in this call makes the call return
\* AuthenticationFailed, and nothing more is written.
C5_RepromptFails ==
  [][ (YieldsLine("login") /\ EndsWith(NextItem.item.line, username_prompt)
         /\ Occurs(pass, written))
        => /\ pc' = "idle"
           /\ outcome'.kind = "AuthenticationFailed"
           /\ written' = written ]_vars

\* C5 witness: login has returned AuthenticationFailed on a line ending in
\* the username prompt, with the username and the password written.
C5_Witness ==
  /\ op = "login" /\ pc = "idle"
  /\ outcome.kind = "AuthenticationFailed"
  /\ item.type = "Line" /\ EndsWith(item.line, username_prompt)
  /\ Occurs(<<115, LF>>, written)

\* C6: in execute and normal_execute a yielded Line that ends in a configured
\* prompt makes the call return Ok, in whatever phase the call is, and the
\* string returned is made of the lines collected before it.
C6_PromptEndsCall ==
  [][ \A o \in {"execute", "normal_execute"} :
        (YieldsLine(o) /\ EndsWithPrompt(NextItem.item.line, prompts))
          => /\ pc' = "idle"
             /\ outcome' = Ok
             /\ result' = Join(content, <<LF>>) ]_vars

\* C6 witness: execute has returned Ok on the prompt while it still waited
\* for the echo of a partial line, and returned the empty string.
C6_Witness ==
  /\ op = "execute" /\ pc = "idle" /\ outcome = Ok
  /\ item.type = "Line" /\ item.line = ShellPrompt
  /\ result = <<>> /\ sent = 2 /\ calls = 1

\* the reply bytes C7 lists
WireReply(i) ==
  IF i.type \in {"Do", "Dont"} /\ i.opt = 31
    THEN <<255, 251, 31, 255, 250, 31, 0, 252, 0, 27, 255, 240>>
  ELSE IF i.type \in {"Do", "Dont"} THEN <<255, 252, i.opt>>
  ELSE <<255, 254, i.opt>>

\* C7: in login every yielded negotiation item starts one write of exactly the
\* listed bytes, and that write adds exactly these bytes to the transport
\* before the loop goes on.
C7_LoginReplies ==
  [][ /\ YieldsNegotiation("login")
           => /\ pc' = "write"
              /\ pending'.bytes = WireReply(NextItem.item)
              /\ written' = written
      /\ (op = "login" /\ pc = "write" /\ pending.kind = "reply"
            /\ pc' # "write")
           => /\ pc' = "loop"
              /\ written' = written \o WireReply(item) ]_vars

\* C7 witness: login has answered WONT NAWS and then DO NAWS.
C7_Witness ==
  /\ op = "login" /\ pc = "loop"
  /\ item = Item("Do", 31, <<>>)
  /\ written = <<255, 254, 31,
                 255, 251, 31, 255, 250, 31, 0, 252, 0, 27, 255, 240>>

\* C8 (as amended): in execute and normal_execute a yielded negotiation item
\* is dropped: nothing is written in reply, the collected output, the partial
\* line and the echo counter stay as they are, and the loop goes on.
C8_ExecDropsNegotiation ==
  [][ \A o \in {"execute", "normal_execute"} :
        YieldsNegotiation(o)
          => /\ pc' = "loop"
             /\ written' = written
             /\ item' = NextItem.item
             /\ UNCHANGED <<content, incomplete_line, line_feed_cnt,
                            real_output>> ]_vars

\* C8 witness: normal_execute has taken IAC DO 1 from the stream and goes on
\* with nothing but its command written.
C8_Witness ==
  /\ op = "normal_execute" /\ pc = "loop"
  /\ item = Item("Do", 1, <<>>) /\ buf = <<>>
  /\ written = command

\* C8 (as stated): in execute and normal_execute a yielded negotiation item is
\* answered with the bytes login answers with.
C8_ExecRepliesAsLogin ==
  [][ \A o \in {"execute", "normal_execute"} :
        YieldsNegotiation(o)
          => written' = written \o WireReply(NextItem.item) ]_vars

\* the phase a Timeout of a read names
ReadPhase(o) == IF o = "login" THEN "login" ELSE "read next framed"

\* a read of the call is pending: the buffer is used up and nothing has come
ReadPending == pc = "loop" /\ ~is_readable /\ wire = <<>>

\* C9: a call that returns while its read is pending returns Timeout with the
\* phase of the method; a call that returns after the transport reported its
\* end with nothing left to decode returns NoMoreData; Timeout for a read is
\* returned in no other case, and NoMoreData in no other case.
C9_TimeoutOrNoMoreData ==
  [][ Returns =>
        /\ (ReadPending /\ ~closed)
             => outcome' = Res("Timeout", ReadPhase(op), 0)
        /\ (pc = "loop" /\ eof /\ is_readable /\ buf = <<>>)
             => outcome'.kind = "NoMoreData"
        /\ (outcome'.kind = "Timeout" /\ pc = "loop")
             => (ReadPending /\ ~closed /\ ~eof)
        /\ outcome'.kind = "NoMoreData"
             => (pc = "loop" /\ eof /\ closed /\ wire = <<>>) ]_vars

\* C9 witness: normal_execute has returned NoMoreData after the remote closed
\* with part of a line collected.
C9_Witness ==
  /\ op = "normal_execute" /\ pc = "idle" /\ closed
  /\ outcome.kind = "NoMoreData"
  /\ item.type = "Line" /\ ~EndsWith(item.line, <<LF>>)

\* a point where the call waits on the remote: for bytes to read, or for the
\* remote to take the bytes of a write
Suspended ==
  \/ ReadPending /\ ~closed
  \/ pc \in {"write_cmd", "write"} /\ ~accepting

\* C10: at every point where a call waits on the remote, the call can fail
\* with Timeout.
C10_EverySuspensionTimed ==
  Suspended => ENABLED (Next /\ pc' = "idle" /\ outcome'.kind = "Timeout")

(***************************************************************************)
(* Properties of the decoder driven on its own.                            *)
(***************************************************************************)
NoIac(s) == \A i \in 1..Len(s) : s[i] # IAC

\* a control byte other than the line-feed
IsControl(b) == b <= 31 /\ b # LF

IsText(b) == ~IsControl(b)

\* s without its control bytes
StripControl(s) == SelectSeq(s, IsText)

HasLf(s) == \E i \in 1..Len(s) : s[i] = LF

FirstLf(s) == CHOOSE i \in 1..Len(s) : s[i] = LF /\ \A j \in 1..(i - 1) : s[j] # LF

\* the line-feed-terminated segments of s, in order
RECURSIVE LfSegments(_)
LfSegments(s) ==
  IF ~HasLf(s) THEN <<>>
  ELSE <<SubSeq(s, 1, FirstLf(s))>> \o LfSegments(Advance(s, FirstLf(s)))

\* what follows the last line-feed of s
RECURSIVE Trailing(_)
Trailing(s) == IF ~HasLf(s) THEN s ELSE Trailing(Advance(s, FirstLf(s)))

\* the Lines that repeated decode calls yield on the buffer src, until a call
\* hands out no item
RECURSIVE DecodeLines(_, _, _)
DecodeLines(src, sb, cur) ==
  LET d == decode(src, sb, cur)
  IN IF d.item.type = "Line"
       THEN <<d.item.line>> \o DecodeLines(d.src, d.sb_flag, d.current_line)
     ELSE IF HandsOut(d.item)
       THEN DecodeLines(d.src, d.sb_flag, d.current_line)
     ELSE <<>>

EndsInLf(l) == EndsWith(l, <<LF>>)

StripEach(segs) == [i \in 1..Len(segs) |-> StripControl(segs[i])]

\* the Lines among the items returned so far
LinesOf(items) ==
  LET ls == SelectSeq(items, LAMBDA i : i.type = "Line")
  IN [i \in 1..Len(ls) |-> ls[i].line]

\* a buffer without 0xFF in front of a decoder that has decoded nothing yet
FreshBuffer == op = "none" /\ emitted = <<>> /\ buf # <<>> /\ NoIac(buf)

\* C11 (as amended): on a buffer without 0xFF, given in one piece to a new
\* decoder, repeated decode calls yield one Line per line-feed-terminated
\* segment, in order, each equal to its segment without its control bytes
\* (0..31 other than the line-feed); what follows the last line-feed yields
\* one more Line, without its control bytes, if its last byte is not a
\* control byte, and no Line otherwise.
C11_LinePerStrippedSegment ==
  FreshBuffer =>
    DecodeLines(buf, sb_flag, current_line)
      = StripEach(LfSegments(buf))
          \o (IF Trailing(buf) # <<>> /\ IsText(buf[Len(buf)])
                THEN <<StripControl(Trailing(buf))>> ELSE <<>>)

\* C11 witness: "a\r\na" was decoded to the Lines "a\n" and "a".
C11_Witness ==
  /\ op = "none" /\ fed = <<97, 13, LF, 97>> /\ buf = <<>>
  /\ LinesOf(emitted) = << <<97, LF>>, <<97>> >>

\* C11 as stated: on a buffer without 0xFF the Lines ending in a line-feed are
\* the line-feed-terminated segments of the buffer, byte for byte.
C11_LinePerSegment ==
  FreshBuffer =>
    SelectSeq(DecodeLines(buf, sb_flag, current_line), EndsInLf)
      = LfSegments(buf)

\* this step is a call of decode
DecodeStep == op = "none" /\ is_readable /\ emitted' # emitted

\* the buffer starts with IAC and a command byte
StartsWithCommand == Len(buf) >= 2 /\ buf[1] = IAC

NegotiationType(cmd) ==
  CASE cmd = WILL -> "Will" [] cmd = WONT -> "Wont"
    [] cmd = DO -> "Do" [] cmd = DONT -> "Dont" [] OTHER -> "None"

\* C12: when the buffer starts with a complete FF {FB,FC,FD,FE} opt, decode
\* returns the matching negotiation item with opt and removes those 3 bytes;
\* when it starts with FF FA or FF F0, the command takes exactly 2 bytes.
C12_CommandsConsumed ==
  [][ (DecodeStep /\ StartsWithCommand)
        => /\ (is_three_byte_iac(buf[2]) /\ Len(buf) >= 3)
                => /\ item' = Item(NegotiationType(buf[2]), buf[3], <<>>)
                   /\ buf' = Advance(buf, 3)
           /\ is_sub(buf[2])
                => /\ try_parse_iac(buf).consume = 2
                   /\ item'.type # "NeedMore" ]_vars

IsSuffix(t, s) == EndsWith(s, t)

\* what a caller may append after a NeedMore
Completions == { <<1>>, <<WILL, 1>>, <<SE, 97>>, <<DO>>, <<153>> }

\* C13 (as amended): a decode call that returns NeedMore leaves the
\* incomplete sequence untouched at the front of the buffer, having removed
\* only bytes in front of it; when the buffer started with the sequence
\* nothing is removed and the pending line and the subnegotiation flag are
\* unchanged; and the next call, after more bytes are appended, answers as a
\* call on the complete buffer would have.
C13_NeedMoreKeepsSequence ==
  [][ (DecodeStep /\ item'.type = "NeedMore")
        => /\ buf' # <<>> /\ buf'[1] = IAC /\ IsSuffix(buf', buf)
           /\ (buf[1] = IAC /\ try_parse_iac(buf).item.type = "NeedMore")
                => /\ buf' = buf
                   /\ sb_flag' = sb_flag
                   /\ current_line' = current_line
           /\ \A x \in Completions :
                decode(buf' \o x, sb_flag', current_line')
                  = decode(buf \o x, sb_flag, current_line) ]_vars

\* C13 witness: FF FB was answered with NeedMore and, once 01 was appended,
\* with WILL 1.
C13_Witness ==
  /\ op = "none"
  /\ \E i \in 1..(Len(emitted) - 1) :
       /\ emitted[i].type = "NeedMore"
       /\ emitted[i + 1] = Item("Will", 1, <<>>)

\* C13 as stated: a decode call that returns NeedMore removes no byte and
\* leaves the pending line and the subnegotiation flag as they were.
C13_NeedMoreChangesNothing ==
  [][ (DecodeStep /\ item'.type = "NeedMore")
        => /\ buf' = buf
           /\ sb_flag' = sb_flag
           /\ current_line' = current_line ]_vars

UnknownCommand(cmd) == ~is_three_byte_iac(cmd) /\ ~is_sub(cmd)

Contains(l, b) == \E i \in 1..Len(l) : l[i] = b

\* C14: when the buffer starts with 0xFF and a command byte that is none of
\* F0, FA, FB, FC, FD, FE, decode fails with that byte, inside a
\* subnegotiation block or outside; the two bytes stay in the buffer, the
\* decoder is unchanged, and no Line ever holds the 0xFF or (here) the 0x99.
C14_UnknownCommandFails ==
  /\ [][ (DecodeStep /\ StartsWithCommand /\ UnknownCommand(buf[2]))
           => /\ item' = Item("Err", buf[2], <<>>)
              /\ buf' = buf
              /\ sb_flag' = sb_flag
              /\ current_line' = current_line ]_vars
  /\ [](\A i \in 1..Len(emitted) :
          emitted[i].type = "Line"
            => ~Contains(emitted[i].line, IAC) /\ ~Contains(emitted[i].line, 153))

\* C14 witness: inside a subnegotiation block, FF 99 was answered with the
\* failure carrying 153.
C14_Witness ==
  /\ op = "none" /\ sb_flag
  /\ item = Item("Err", 153, <<>>)
  /\ Len(buf) >= 2 /\ buf[1] = IAC /\ buf[2] = 153

\* C15: no Line holds a byte that lies between a subnegotiation start and the
\* subnegotiation end after it (in the streams here: 0x41 and 0x42), however
\* the stream is cut into pieces; nor does the pending line.
C15_BlockDataNeverInLine ==
  /\ \A i \in 1..Len(emitted) :
       emitted[i].type = "Line"
         => ~Contains(emitted[i].line, 65) /\ ~Contains(emitted[i].line, 66)
  /\ ~Contains(current_line, 65) /\ ~Contains(current_line, 66)

\* C15 witness: FF FA 01 41 42 FF F0 "a" was decoded, in more than one piece,
\* and the one Line it yielded is "a".
C15_Witness ==
  /\ op = "none" /\ ~sb_flag /\ buf = <<>>
  /\ fed = <<IAC, SB, 1, 65, 66, IAC, SE, 97>>
  /\ LinesOf(emitted) = << <<97>> >>
  /\ \E i \in 1..Len(emitted) : emitted[i].type = "NeedMore"

\* C18: when decode has answered "no item" and the buffer is used up, the
\* decoder holds no bytes of a line: every text byte received has been
\* handed out in a Line.
C18_NothingWithheld ==
  (op = "none" /\ emitted # <<>> /\ item.type = "None" /\ buf = <<>>)
    => current_line = <<>>

\* C20: inside a subnegotiation block, when the buffer ends with FF F0 and
\* holds no other 0xFF, decode takes the two bytes and leaves the block.
C20_EndRecognisedAtOnce ==
  [][ (DecodeStep /\ sb_flag /\ EndsWith(buf, <<IAC, SE>>)
         /\ NoIac(SubSeq(buf, 1, Len(buf) - 2)))
        => /\ item'.type # "NeedMore"
           /\ ~sb_flag'
           /\ buf' = <<>> ]_vars

\* a Line as the decoder may hand it out: not empty, without 0xFF, without a
\* byte of 0..31 other than a line-feed in the last place
WellFormedLine(l) ==
  /\ l # <<>>
  /\ ~Contains(l, IAC)
  /\ \A i \in 1..Len(l) : l[i] <= 31 => (l[i] = LF /\ i = Len(l))

\* C21: every Line handed out is not empty, holds no 0xFF and no byte of
\* 0..31 other than a line-feed in its last place, and the pending line holds
\* text bytes only; outside a subnegotiation block a control byte at the
\* front of the buffer is dropped (the call answers as on the buffer without
\* it, pending line untouched), and a line-feed ends the pending line at once
\* and is the last byte of the Line handed out.
C21_LinesWellFormed ==
  /\ [](\A i \in 1..Len(emitted) :
          emitted[i].type = "Line" => WellFormedLine(emitted[i].line))
  /\ [](\A i \in 1..Len(current_line) :
          current_line[i] > 31 /\ current_line[i] # IAC)
  /\ [][ (DecodeStep /\ ~sb_flag /\ buf # <<>> /\ IsControl(buf[1]))
           => /\ item' = decode(Tail(buf), sb_flag, current_line).item
              /\ buf' = decode(Tail(buf), sb_flag, current_line).src
              /\ item'.type = "Line"
                   => ~Contains(SubSeq(item'.line, 1, Len(current_line) + 1),
                                buf[1]) ]_vars
  /\ [][ (DecodeStep /\ ~sb_flag /\ buf # <<>> /\ buf[1] = LF)
           => /\ item' = Item("Line", 0, current_line \o <<LF>>)
              /\ buf' = Tail(buf)
              /\ current_line' = <<>> ]_vars

\* C21 witness: "a\ra\r\n" was decoded to the one Line "aa\n", the two
\* carriage returns dropped.
C21_Witness ==
  /\ op = "none" /\ fed = <<97, 13, 97, 13, LF>> /\ buf = <<>>
  /\ LinesOf(emitted) = << <<97, 97, LF>> >>

\* the items that repeated decode calls return on the buffer src, until a
\* call hands out no item
RECURSIVE DecodeAll(_, _, _)
DecodeAll(src, sb, cur) ==
  LET d == decode(src, sb, cur)
  IN IF HandsOut(d.item)
       THEN <<d.item>> \o DecodeAll(d.src, d.sb_flag, d.current_line)
       ELSE <<>>

IsNegotiation(i) == i.type \in {"Will", "Wont", "Do", "Dont"}

NegotiationsOf(items) == SelectSeq(items, IsNegotiation)

\* C24: once the decoder has answered on all that was appended, the Line
\* payloads handed out so far, put end to end, and the negotiation items
\* handed out so far are those that a new decoder hands out on the same
\* bytes given as one buffer.
C24_SplitIndependent ==
  (op = "none" /\ ~is_readable /\ emitted # <<>>)
    => LET whole == DecodeAll(fed, FALSE, <<>>)
       IN /\ Concat(LinesOf(emitted)) = Concat(LinesOf(whole))
          /\ NegotiationsOf(emitted) = NegotiationsOf(whole)

(***************************************************************************)
(* Further properties of the session.                                      *)
(***************************************************************************)
\* how many times t occurs in s
Count(t, s) ==
  Cardinality({i \in 0..(Len(s) - Len(t)) : SubSeq(s, i + 1, i + Len(t)) = t})

\* C16: within one login call the password is written at most twice (the
\* first time and after one re-prompt), and a credential prompt that comes
\* after that ends the call with a failure, with nothing more written.
C16_OneRetry ==
  /\ []((op = "login" /\ pass # <<>>) => Count(pass, written) <= 2)
  /\ [][ (YieldsLine("login") /\ Count(pass, written) >= 2
            /\ (EndsWith(NextItem.item.line, username_prompt)
                  \/ EndsWith(NextItem.item.line, password_prompt)))
           => /\ pc' = "idle"
              /\ outcome'.kind = "AuthenticationFailed"
              /\ written' = written ]_vars

\* C17: execute and normal_execute write the normalized command, all of it,
\* before anything is read; when the write outlasts the timer the call
\* returns Timeout("write cmd") with nothing read.
C17_CommandWrittenWhole ==
  [][ /\ (pc = "idle" /\ pc' = "write_cmd")
           => \E c \in Cmds : command' = format_enter_str(c)
      /\ (pc = "write_cmd" /\ pc' = "loop")
           => written' = command /\ buf = <<>> /\ buf' = <<>>
      /\ (pc = "write_cmd" /\ pc' = "idle")
           => /\ outcome' = Res("Timeout", "write cmd", 0)
              /\ buf = <<>> /\ written' = <<>> ]_vars

\* the call in progress is handed Item::NeedMore now
YieldsNeedMore ==
  /\ op # "none" /\ pc = "loop" /\ is_readable
  /\ NextItem.item.type = "NeedMore"

\* C19: when a read ends inside a negotiation sequence the call neither fails
\* nor goes round its loop without reading: it keeps the bytes and waits for
\* the next read.
C19_PartialSequenceHandled ==
  [][ YieldsNeedMore
        => /\ pc' = "loop"
           /\ ~is_readable'
           /\ buf' = buf ]_vars

\* the Line that login is handed now
LoginLine == NextItem.item.line

\* C22: login returns Ok only on a Line that ends in a configured prompt and
\* in neither credential prompt; a Line ending in the username prompt is
\* answered as one (the username, or the failure once the password is
\* written) whatever else it ends in; a Line ending in the password prompt
\* and not in the username prompt is answered with the password, also when
\* it ends in a shell prompt; a Line ending in none of them is passed over:
\* nothing is written and the call's state stays as it is.
C22_SuccessOnlyOnPrompt ==
  [][ /\ (op = "login" /\ Returns /\ outcome' = Ok)
           => /\ YieldsLine("login")
              /\ EndsWithPrompt(LoginLine, prompts)
              /\ ~EndsWith(LoginLine, username_prompt)
              /\ ~EndsWith(LoginLine, password_prompt)
              /\ written' = written
      /\ (YieldsLine("login") /\ EndsWith(LoginLine, username_prompt))
           => \/ /\ ~auth_failed /\ pc' = "write"
                 /\ pending' = [kind |-> "user", bytes |-> user]
              \/ /\ auth_failed /\ pc' = "idle"
                 /\ outcome'.kind = "AuthenticationFailed"
      /\ (YieldsLine("login") /\ ~EndsWith(LoginLine, username_prompt)
             /\ EndsWith(LoginLine, password_prompt))
           => /\ pc' = "write"
              /\ pending' = [kind |-> "pass", bytes |-> pass]
      /\ (YieldsLine("login") /\ ~EndsWith(LoginLine, username_prompt)
             /\ ~EndsWith(LoginLine, password_prompt)
             /\ ~EndsWithPrompt(LoginLine, prompts))
           => /\ pc' = "loop"
              /\ UNCHANGED <<locals, written, content, outcome, result>> ]_vars

\* C22 witness: with the username prompt ":", login has returned Ok on a Line
\* ending in the shell prompt, after one Line was answered with the username.
C22_Witness ==
  /\ op = "login" /\ pc = "idle" /\ outcome = Ok
  /\ username_prompt = <<58>>
  /\ written = <<98, LF>>
  /\ item.type = "Line" /\ EndsWithPrompt(item.line, prompts)

\* the call is handed a Line while it collects output: normal_execute, or
\* execute once the echo is over
Collecting ==
  /\ \/ op = "normal_execute"
     \/ op = "execute" /\ real_output
  /\ pc = "loop" /\ is_readable
  /\ NextItem.item.type = "Line"

\* C23: while a call collects output, what it does with a chunk depends only
\* on the partial line followed by the chunk, so a line that comes in several
\* chunks is treated as the same line come in one: as long as it ends in
\* neither a prompt nor a line-feed it is kept as the partial line and
\* nothing is added to the output; when it ends in a line-feed it is added to
\* the output once, whole, and the partial line is emptied; when it ends in
\* a prompt, in one chunk or across chunks, the call returns Ok with the
\* lines collected before it.  The partial line never ends in a prompt.
C23_ChunksAsOneLine ==
  /\ [](pc = "loop" => ~EndsWithPrompt(incomplete_line, prompts))
  /\ [][ Collecting
           => LET acc == incomplete_line \o NextItem.item.line
              IN IF EndsWithPrompt(acc, prompts)
                   THEN /\ pc' = "idle" /\ outcome' = Ok
                        /\ result' = joined(content)
                        /\ content' = <<>>
                 ELSE IF EndsWith(acc, <<LF>>)
                   THEN IF TextDecode(acc).ok
                          THEN /\ pc' = "loop"
                               /\ content' = Append(content, TextDecode(acc).s)
                               /\ incomplete_line' = <<>>
                          ELSE /\ pc' = "idle"
                               /\ outcome'.kind = "ParseError"
                               /\ content' = content
                 ELSE /\ pc' = "loop"
                      /\ content' = content
                      /\ incomplete_line' = acc ]_vars

\* C23 witness: normal_execute has returned "aa\n", the line come as "a" and
\* "a\n" and the prompt "$ " as "$" and " ".
C23_Witness ==
  /\ op = "normal_execute" /\ pc = "idle" /\ outcome = Ok
  /\ result = <<97, 97, LF>>
  /\ item = Item("Line", 0, <<32>>)

\* execute is in progress
Executing == op = "execute" /\ pc # "idle"

\* C25: in execute the echo counter starts at the number of lines of the
\* normalized command, which is at least 1 (also for the empty command), with
\* the real-output flag false; during the call the counter never goes up and
\* never below zero, the flag is true exactly when the counter is zero and
\* stays true once it is, and while the counter is positive nothing is added
\* to the output or to the partial line.
C25_PhaseMovesForward ==
  /\ \A c \in Cmds \cup {<<>>} : echo_lines(format_enter_str(c)) >= 1
  /\ [](Executing
          => /\ line_feed_cnt >= 0
             /\ real_output <=> (line_feed_cnt = 0))
  /\ [][ (pc = "idle" /\ op' = "execute" /\ pc' = "write_cmd")
           => /\ line_feed_cnt' = LinesCount(command')
              /\ line_feed_cnt' >= 1
              /\ ~real_output' ]_vars
  /\ [][ (Executing /\ pc' # "idle")
           => /\ line_feed_cnt' <= line_feed_cnt
              /\ line_feed_cnt' >= line_feed_cnt - 1
              /\ real_output => real_output'
              /\ line_feed_cnt > 0
                   => /\ content' = content
                      /\ incomplete_line' = incomplete_line
                      /\ incomplete_line = <<>> ]_vars

\* C25 witness: execute of the two-line command "c\nc" has taken two lines
\* as echo, its counter is at zero, and it has collected the line after them.
C25_Witness ==
  /\ op = "execute" /\ pc = "loop"
  /\ command = <<99, LF, 99, LF>>
  /\ line_feed_cnt = 0 /\ real_output
  /\ content = << <<97, LF>> >>

====
